---- MODULE Spec2Model ----
(***************************************************************************)
(* A model of run_samseg/count_lesions_and_volumes.py: the script that     *)
(* compares a baseline and a follow-up lesion mask, labels connected       *)
(* components, and classifies every component of the two difference masks. *)
(*                                                                         *)
(* Arithmetic.  Physical sizes are floats in the script.  Here the affines *)
(* are integer diagonal matrices, so voxel spacings, voxel volumes and     *)
(* lesion sizes are integers, and Euclidean distances are kept squared.    *)
(* The float comparisons are cross-multiplied:                             *)
(*     s > 0.7 * T        <=>  10 * s > 7 * T                              *)
(*     f - r > 0.05 * f   <=>  20 * (f - r) > f                            *)
(*     d > 1.1 * v        <=>  100 * d^2 > 121 * v^2                       *)
(*     o < 0.3 * vol      <=>  10 * o < 3 * vol                            *)
(***************************************************************************)
EXTENDS Integers, Sequences, FiniteSets, TLC

\* Side of the voxel grid the input files are drawn on.
GridSize == 3


------------------------------------------------------------------------------
(* numpy / scipy / skimage primitives used by the script                   *)

\* The voxel indices of an array of the given shape.
Voxels(shape) ==
  {<<x, y, z>> : x \in 0..(shape[1] - 1), y \in 0..(shape[2] - 1), z \in 0..(shape[3] - 1)}

\* Position of a voxel in arr.ravel() (C order).
Ravel(v, shape) == v[1] * shape[2] * shape[3] + v[2] * shape[3] + v[3]

\* The voxel at a position of arr.ravel().
Unravel(i, shape) ==
  <<i \div (shape[2] * shape[3]), (i \div shape[3]) % shape[2], i % shape[3]>>

\* An array is its shape and its values in C order; data[i + 1] is the value
\* at position i of arr.ravel().
Array(shape, value) ==
  [shape |-> shape,
   data |-> [i \in 1..(shape[1] * shape[2] * shape[3]) |-> value[Unravel(i - 1, shape)]]
              @@ <<>>]

\* arr[v]
At(arr, v) == arr.data[Ravel(v, arr.shape) + 1]

\* The values that occur in an array.
Values(arr) == {arr.data[i] : i \in 1..Len(arr.data)}

\* The voxels where an array is non-zero.
NonZero(arr) == {v \in Voxels(arr.shape) : At(arr, v) # 0}

\* The voxels where an array equals a value (arr == value).
Equal(arr, value) == {v \in Voxels(arr.shape) : At(arr, v) = value}

\* np.array(<boolean array>, dtype=float): 1.0 on the set, 0.0 elsewhere.
AsFloat(shape, set) == Array(shape, [v \in Voxels(shape) |-> IF v \in set THEN 1 ELSE 0])

\* A numpy index into an axis of length n: negative indices count from the end.
Idx(i, n) == IF i < 0 THEN n + i ELSE i

\* A 3x3x3 array is kept as nested rows: arr[i, j, k] is m[i + 1][j + 1][k + 1].
\* np.ones([3, 3, 3]) / np.zeros([3, 3, 3])
Filled3(value) == [i \in 1..3 |-> [j \in 1..3 |-> [k \in 1..3 |-> value]]]

\* arr[i, j, k] = value for every index triple of a set, numpy-normalised.
Assign3(arr, idxs, value) ==
  [i \in 1..3 |-> [j \in 1..3 |-> [k \in 1..3 |->
     IF \E t \in idxs : <<i - 1, j - 1, k - 1>> = <<Idx(t[1], 3), Idx(t[2], 3), Idx(t[3], 3)>>
     THEN value ELSE arr[i][j][k]]]]

Abs(i) == IF i < 0 THEN -i ELSE i

\* Two distinct voxels are neighbours under a 3x3x3 structuring element when
\* the entry of the element at their offset (centre at [1, 1, 1]) is set.
Adjacent(u, v, structure) ==
  /\ u # v
  /\ v[1] - u[1] \in -1..1 /\ v[2] - u[2] \in -1..1 /\ v[3] - u[3] \in -1..1
  /\ structure[v[1] - u[1] + 2][v[2] - u[2] + 2][v[3] - u[3] + 2] # 0

\* ndi.generate_binary_structure(3, 1): the centre and its six face neighbours.
FaceStructure ==
  [i \in 1..3 |-> [j \in 1..3 |-> [k \in 1..3 |->
     IF Abs(i - 2) + Abs(j - 2) + Abs(k - 2) <= 1 THEN 1 ELSE 0]]]

\* Flood fill: everything of `within` reachable from `frontier`.
RECURSIVE Grow(_, _, _, _)
Grow(frontier, seen, within, structure) ==
  IF frontier = {} THEN seen
  ELSE LET nxt == {v \in within \ seen : \E u \in frontier : Adjacent(u, v, structure)}
       IN Grow(nxt, seen \cup nxt, within, structure)

\* The connected components of a voxel set, in the order of their first voxel
\* in a raster scan.
RECURSIVE Components(_, _, _, _)
Components(rest, shape, structure, acc) ==
  IF rest = {} THEN acc
  ELSE LET seed == CHOOSE v \in rest : \A w \in rest : Ravel(v, shape) <= Ravel(w, shape)
           comp == Grow({seed}, {seed}, rest, structure)
       IN Components(rest \ comp, shape, structure, Append(acc, comp))

\* ndi.label(input, structure): the label array and the number of components.
ndi_label(input, structure) ==
  LET comps == Components(NonZero(input), input.shape, structure, <<>>)
  IN [labels |-> Array(input.shape,
                       [v \in Voxels(input.shape) |-> IF At(input, v) = 0 THEN 0
                                  ELSE CHOOSE l \in 1..Len(comps) : v \in comps[l]]),
      num |-> Len(comps)]

SetMax(S) == CHOOSE m \in S : \A n \in S : n <= m
SetMin(S) == CHOOSE m \in S : \A n \in S : m <= n

\* np.bincount(labels.ravel())[1:]: voxel count of every label 1..max.
bincount_tail(labels) ==
  LET top == SetMax(Values(labels))
  IN [l \in 1..top |-> Cardinality(Equal(labels, l))] @@ <<>>

\* len(np.unique(labels)): the number of distinct values in the array.
unique_len(labels) == Cardinality(Values(labels))

RECURSIVE SeqSum(_)
SeqSum(s) == IF s = <<>> THEN 0 ELSE s[1] + SeqSum(Tail(s))

\* np.sum(sizes[mask]): sum of the entries selected by a boolean mask.
masked_sum(sizes, mask) ==
  SeqSum([i \in 1..Len(sizes) |-> IF mask[i] THEN sizes[i] ELSE 0])

\* int(np.sum(mask)): number of true entries.
count_true(mask) == Cardinality({i \in 1..Len(mask) : mask[i]})

\* A voxel on the border of the array: one of its face neighbours lies outside.
OnBorder(v, shape) == \E a \in 1..3 : v[a] = 0 \/ v[a] = shape[a] - 1

\* ndi.binary_fill_holes(lesion): the background is flooded from outside the
\* array through face neighbours; whatever the flood does not reach is filled.
binary_fill_holes(lesion, shape) ==
  LET bg == Voxels(shape) \ lesion
      entry == {v \in bg : OnBorder(v, shape)}
  IN Voxels(shape) \ Grow(entry, entry, bg, FaceStructure)

\* skimage.morphology.binary_dilation(lesion): one dilation by the default
\* footprint, the face-connectivity cross.
binary_dilation(lesion, shape) ==
  lesion \cup {v \in Voxels(shape) \ lesion : \E u \in lesion : Adjacent(u, v, FaceStructure)}

\* Squared physical distance between two voxels under per-axis spacing.
Dist2(u, v, sampling) ==
  ((u[1] - v[1]) * sampling[1]) * ((u[1] - v[1]) * sampling[1])
  + ((u[2] - v[2]) * sampling[2]) * ((u[2] - v[2]) * sampling[2])
  + ((u[3] - v[3]) * sampling[3]) * ((u[3] - v[3]) * sampling[3])

\* ndi.distance_transform_edt(labels, sampling), squared: for every non-zero
\* voxel the distance to the nearest zero voxel of the array.  scipy does not
\* define the result when the array has no zero voxel; the possible results
\* are then every voxel at 0 and every voxel measured from a phantom voxel
\* just before the first one.
distance_transform_edt(labels, sampling) ==
  LET zero == Equal(labels, 0)
  IN IF zero # {}
     THEN {Array(labels.shape,
                 [v \in Voxels(labels.shape) |-> IF v \in zero THEN 0
                            ELSE SetMin({Dist2(v, z, sampling) : z \in zero})])}
     ELSE {Array(labels.shape, [v \in Voxels(labels.shape) |-> 0]),
           Array(labels.shape, [v \in Voxels(labels.shape) |-> Dist2(v, <<-1, 0, 0>>, sampling)])}

\* Exact integer square root (the model's affines have integer column norms).
Sqrt(n) == CHOOSE r \in 0..n : r * r = n

------------------------------------------------------------------------------
(* Inputs: command-line arguments and the two segmentation files           *)

\* Values tried for --connectivity, --min-size (mm^3) and --max-overlap (a
\* fraction, kept as numerator and denominator; 3/10 is the default).
ArgConnectivities == {0, 6, 8, 18, 26}
ArgMinSizes == {2, 12}
ArgMaxOverlaps == {<<3, 10>>}

\* Number of axes on which a voxel lies on the border of the grid.
BorderAxes(v, shape) == Cardinality({a \in 1..3 : v[a] = 0 \/ v[a] = shape[a] - 1})

\* An affine with the given voxel spacings on its diagonal and no translation.
DiagAffine(zooms) ==
  [m |-> <<<<zooms[1], 0, 0>>, <<0, zooms[2], 0>>, <<0, 0, zooms[3]>>>>,
   t |-> <<0, 0, 0>>]

\* Voxel spacings (mm) of the input affines: isotropic 1 mm, and 2 x 1 x 1 mm.
Affines == {DiagAffine(<<1, 1, 1>>), DiagAffine(<<2, 1, 1>>)}

\* A SAMSEG segmentation file: label 99 (lesion) on the voxels whose number of
\* border axes is in `classes`, label 2 on the other inner voxels, 0 elsewhere.
\* On a 3x3x3 grid the classes are the centre (0), the six face centres (1),
\* the twelve edge voxels (2) and the eight corners (3).
SegFile(classes, shape, affine) ==
  [seg |-> Array(shape, [v \in Voxels(shape) |-> IF BorderAxes(v, shape) \in classes THEN 99
                                   ELSE IF BorderAxes(v, shape) = 0 THEN 2 ELSE 0]),
   affine |-> affine]

BaselineShape == <<GridSize, GridSize, GridSize>>
LongerShape == <<GridSize + 1, GridSize, GridSize>>

\* A segmentation file with label 99 (lesion) exactly on the given voxels.
LesionFile(lesion, shape, affine) ==
  [seg |-> Array(shape, [v \in Voxels(shape) |-> IF v \in lesion THEN 99 ELSE 0]),
   affine |-> affine]

\* A corner voxel of the grid with its three face neighbours; `far` is 0 for
\* the corner at the origin and 1 for the opposite corner.
Lobe(far) ==
  LET n == GridSize - 1
      c == IF far = 1 THEN n ELSE 0
      d == IF far = 1 THEN n - 1 ELSE 1
  IN {<<c, c, c>>, <<d, c, c>>, <<c, d, c>>, <<c, c, d>>}

\* A one-voxel-wide face-connected path from a face neighbour of Lobe(0) to a
\* face neighbour of Lobe(1).
Bridge ==
  LET n == GridSize - 1
  IN {<<1, y, 0>> : y \in 1..n}
       \cup {<<1, n, z>> : z \in 1..(n - 1)}
       \cup {<<x, n, n - 1>> : x \in 1..(n - 1)}

\* One baseline lesion made of two lobes joined by a thin bridge, and the
\* follow-up in which only the bridge is left.
DumbbellFile == LesionFile(Lobe(0) \cup Lobe(1) \cup Bridge, BaselineShape, DiagAffine(<<1, 1, 1>>))
BridgeFile == LesionFile(Bridge, BaselineShape, DiagAffine(<<1, 1, 1>>))

BaselineFiles ==
  {SegFile(c, BaselineShape, a) : c \in SUBSET (0..3), a \in Affines}
    \cup {DumbbellFile}

\* Follow-up files on the baseline's grid, two on a longer grid, and the
\* follow-up of the dumbbell lesion.
FollowupFiles ==
  {SegFile(c, BaselineShape, a) : c \in SUBSET (0..3), a \in Affines}
    \cup {SegFile(c, LongerShape, DiagAffine(<<1, 1, 1>>)) : c \in {{0}, {1, 2}}}
    \cup {BridgeFile}

------------------------------------------------------------------------------
(* Program state                                                           *)

VARIABLES
  pc,                          \* position in the script
  args,                        \* parsed command line
  bl_file, fu_file,            \* the files behind args.baseline / args.followup
  connectivity,
  baseline, baseline_affine, voxelsize_baseline, voxel_resolution_baseline,
  followup,
  lesions_baseline, ok_sizes_baseline, thresholded_baseline_lesions, baseline_volume,
  lesions_followup, ok_sizes_followup, thresholded_followup_lesions, followup_volume,
  lesion_sizes, distance_map, lesion_number, range_stop,
  lesions_fu_min_bl, ok_sizes_fu_min_bl, enlarging_lesions, new_lesions, fu_min_bl_volume,
  lesions_bl_min_fu, ok_sizes_bl_min_fu, shrinking_lesions, disappearing_lesions, bl_min_fu_volume,
  trace_fu_min_bl, trace_bl_min_fu,   \* the per-lesion decisions the --debug trace prints
  stdout,                      \* the last message printed
  npz,                         \* lesion_count_and_total_volume.npz, <<>> until written
  images                       \* the four label images, <<>> until written

setup_vars == <<args, connectivity>>
file_vars == <<bl_file, fu_file>>
load_vars == <<baseline, baseline_affine, voxelsize_baseline, voxel_resolution_baseline, followup>>
bl_vars == <<lesions_baseline, ok_sizes_baseline, thresholded_baseline_lesions, baseline_volume>>
fu_vars == <<lesions_followup, ok_sizes_followup, thresholded_followup_lesions, followup_volume>>
loop_vars == <<lesion_sizes, distance_map, lesion_number, range_stop>>
growth_vars == <<lesions_fu_min_bl, ok_sizes_fu_min_bl, enlarging_lesions, new_lesions,
                 fu_min_bl_volume, trace_fu_min_bl>>
shrink_vars == <<lesions_bl_min_fu, ok_sizes_bl_min_fu, shrinking_lesions, disappearing_lesions,
                 bl_min_fu_volume, trace_bl_min_fu>>
out_vars == <<stdout, npz, images>>

vars == <<pc, setup_vars, file_vars, load_vars, bl_vars, fu_vars, loop_vars,
          growth_vars, shrink_vars, out_vars>>

\* An array that has not been assigned yet.
NoArray == [shape |-> <<0, 0, 0>>, data |-> <<>>]
NoFile == [seg |-> NoArray, affine |-> DiagAffine(<<0, 0, 0>>)]

Init ==
  /\ pc = "setup"
  /\ args \in [connectivity : ArgConnectivities, min_size : ArgMinSizes,
               max_overlap : ArgMaxOverlaps]
  /\ bl_file = NoFile /\ fu_file = NoFile
  /\ connectivity = Filled3(0)
  /\ baseline = NoArray /\ followup = NoArray
  /\ baseline_affine = DiagAffine(<<0, 0, 0>>)
  /\ voxelsize_baseline = 0 /\ voxel_resolution_baseline = <<0, 0, 0>>
  /\ lesions_baseline = NoArray /\ ok_sizes_baseline = <<>>
  /\ thresholded_baseline_lesions = 0 /\ baseline_volume = 0
  /\ lesions_followup = NoArray /\ ok_sizes_followup = <<>>
  /\ thresholded_followup_lesions = 0 /\ followup_volume = 0
  /\ lesion_sizes = <<>> /\ distance_map = NoArray /\ lesion_number = 0 /\ range_stop = 0
  /\ lesions_fu_min_bl = NoArray /\ ok_sizes_fu_min_bl = <<>>
  /\ enlarging_lesions = 0 /\ new_lesions = 0 /\ fu_min_bl_volume = 0
  /\ lesions_bl_min_fu = NoArray /\ ok_sizes_bl_min_fu = <<>>
  /\ shrinking_lesions = 0 /\ disappearing_lesions = 0 /\ bl_min_fu_volume = 0
  /\ trace_fu_min_bl = <<>> /\ trace_bl_min_fu = <<>>
  /\ stdout = "" /\ npz = <<>> /\ images = <<>>

------------------------------------------------------------------------------
(* Lines 24-48: the connectivity matrix                                    *)

\* The set-up with one more branch that does not exit.
ValidConnectivity_extra(c) == c \in {26, 18, 6, 8}

ValidConnectivity(c) == c \in {26, 18, 6}

\* The set-up with one corner of the 18-connectivity matrix cleared twice and
\* its opposite corner left set.
connectivity_matrix_typo(c) ==
  IF c = 26 THEN Filled3(1)
  ELSE IF c = 18 THEN
    Assign3(Filled3(1),
            {<<0, 0, 0>>, <<-1, -1, -1>>, <<0, -1, -1>>, <<-1, 0, 0>>,
             <<0, 0, -1>>, <<0, -1, 0>>, <<-1, 0, -1>>, <<0, -1, 0>>}, 0)
  ELSE
    Assign3(Filled3(0),
            {<<1, 1, 1>>, <<0, 1, 1>>, <<2, 1, 1>>, <<1, 0, 1>>,
             <<1, 2, 1>>, <<1, 1, 0>>, <<1, 1, 2>>}, 1)

connectivity_matrix(c) ==
  IF c = 26 THEN Filled3(1)
  ELSE IF c = 18 THEN
    Assign3(Filled3(1),
            {<<0, 0, 0>>, <<-1, -1, -1>>, <<0, -1, -1>>, <<-1, 0, 0>>,
             <<0, 0, -1>>, <<0, -1, 0>>, <<-1, 0, -1>>, <<-1, -1, 0>>}, 0)
  ELSE
    Assign3(Filled3(0),
            {<<1, 1, 1>>, <<0, 1, 1>>, <<2, 1, 1>>, <<1, 0, 1>>,
             <<1, 2, 1>>, <<1, 1, 0>>, <<1, 1, 2>>}, 1)

SetUpConnectivity ==
  /\ pc = "setup"
  /\ IF ValidConnectivity(args.connectivity)
     THEN /\ connectivity' = connectivity_matrix(args.connectivity)
          /\ pc' = "load_baseline"
          /\ UNCHANGED stdout
     ELSE /\ stdout' = "Invalid value for argument connectivity, exit"
          /\ pc' = "exit"
          /\ UNCHANGED connectivity
  /\ UNCHANGED <<args, file_vars, load_vars, bl_vars, fu_vars, loop_vars,
                 growth_vars, shrink_vars, npz, images>>

------------------------------------------------------------------------------
(* Lines 50-57: loading                                                    *)

\* nib.load(path).get_fdata() == 99, as a float array.
lesion_mask(file) == AsFloat(file.seg.shape, Equal(file.seg, 99))

\* np.sum(affine[:3, :3] ** 2, axis=0) ** 0.5: the norm of every column.
column_norms(affine) ==
  [j \in 1..3 |-> Sqrt(affine.m[1][j] * affine.m[1][j] + affine.m[2][j] * affine.m[2][j]
                       + affine.m[3][j] * affine.m[3][j])]

LoadBaseline ==
  /\ pc = "load_baseline"
  /\ \E f \in BaselineFiles :
       /\ bl_file' = f
       /\ baseline' = lesion_mask(f)
       /\ baseline_affine' = f.affine
       /\ voxel_resolution_baseline' = column_norms(f.affine)
       /\ voxelsize_baseline' = column_norms(f.affine)[1] * column_norms(f.affine)[2]
                                  * column_norms(f.affine)[3]
  /\ pc' = "load_followup"
  /\ UNCHANGED <<setup_vars, fu_file, followup, bl_vars, fu_vars, loop_vars,
                 growth_vars, shrink_vars, out_vars>>

LoadFollowup ==
  /\ pc = "load_followup"
  /\ \E f \in FollowupFiles :
       /\ fu_file' = f
       /\ followup' = lesion_mask(f)
  /\ pc' = "label_baseline"
  /\ UNCHANGED <<setup_vars, bl_file, baseline, baseline_affine, voxelsize_baseline,
                 voxel_resolution_baseline, bl_vars, fu_vars, loop_vars,
                 growth_vars, shrink_vars, out_vars>>

------------------------------------------------------------------------------
(* Lines 58-76: counting the baseline and follow-up lesions                *)

\* np.bincount(labels.ravel())[1:] * voxelsize
physical_sizes(labels, voxelsize) ==
  LET counts == bincount_tail(labels)
  IN [l \in 1..Len(counts) |-> counts[l] * voxelsize] @@ <<>>

\* sizes > factor * min_size, with factor = num / den
size_mask(sizes, num, den, min_size) ==
  [l \in 1..Len(sizes) |-> den * sizes[l] > num * min_size] @@ <<>>

LabelBaseline ==
  /\ pc = "label_baseline"
  /\ LET lab == ndi_label(baseline, connectivity)
         sizes == physical_sizes(lab.labels, voxelsize_baseline)
         ok == size_mask(sizes, 1, 1, args.min_size)
     IN /\ lesions_baseline' = lab.labels
        /\ lesion_sizes' = sizes
        /\ ok_sizes_baseline' = ok
        /\ thresholded_baseline_lesions' = count_true(ok)
        /\ baseline_volume' = masked_sum(sizes, ok)
  /\ pc' = "label_followup"
  /\ UNCHANGED <<setup_vars, file_vars, load_vars, fu_vars, distance_map, lesion_number,
                 range_stop, growth_vars, shrink_vars, out_vars>>

LabelFollowup ==
  /\ pc = "label_followup"
  /\ LET lab == ndi_label(followup, connectivity)
         sizes == physical_sizes(lab.labels, voxelsize_baseline)
         ok == size_mask(sizes, 1, 1, args.min_size)
     IN /\ lesions_followup' = lab.labels
        /\ lesion_sizes' = sizes
        /\ ok_sizes_followup' = ok
        /\ thresholded_followup_lesions' = count_true(ok)
        /\ followup_volume' = masked_sum(sizes, ok)
  /\ pc' = "growth_diff"
  /\ UNCHANGED <<setup_vars, file_vars, load_vars, bl_vars, distance_map, lesion_number,
                 range_stop, growth_vars, shrink_vars, out_vars>>

------------------------------------------------------------------------------
(* Lines 78-142: follow-up minus baseline, the growth pass                 *)

\* The difference mask taken with >= 0 in place of > 0.
positive_difference_geq(a, b) ==
  AsFloat(a.shape, {v \in Voxels(a.shape) : At(a, v) - At(b, v) >= 0})

\* np.array(a - b > 0, dtype=float), for arrays of one shape.
positive_difference(a, b) ==
  AsFloat(a.shape, {v \in Voxels(a.shape) : At(a, v) - At(b, v) > 0})

\* The keep mask rebuilt as true everywhere but at the discarded lesion.
discard_rebuild(ok, l) == [i \in 1..Len(ok) |-> i # l]

\* ok_sizes[lesion_number - 1] = False
discard(ok, l) == [ok EXCEPT ![l] = FALSE]

\* Lines 94-139 for one lesion_number: the branch the loop body takes.
growth_decision(l, labels, ok, base, dmap, voxelsize, a) ==
  IF ~ok[l] THEN "prefiltered"
  ELSE
    LET lesion == Equal(labels, l)
        volume == Cardinality(lesion) * voxelsize
        filled_volume == Cardinality(binary_fill_holes(lesion, labels.shape))
    IN IF /\ 20 * (filled_volume - Cardinality(lesion)) > filled_volume
          /\ filled_volume > a.min_size
       THEN "enlarging"
       ELSE IF volume <= a.min_size THEN "too_small"
       ELSE
         LET dilated_lesion == binary_dilation(lesion, labels.shape)
             overlap == Cardinality(dilated_lesion \cap NonZero(base))
         IN IF /\ 100 * SetMax({At(dmap, v) : v \in lesion}) > 121 * voxelsize * voxelsize
               /\ a.max_overlap[2] * overlap < a.max_overlap[1] * volume
            THEN "new"
            ELSE "rejected_shape"

\* One iteration of the loop at line 92 on the loop's variables.
growth_step(st, l, labels, base, dmap, voxelsize, a) ==
  LET d == growth_decision(l, labels, st.ok, base, dmap, voxelsize, a)
  IN [ok |-> IF d \in {"too_small", "rejected_shape"} THEN discard(st.ok, l) ELSE st.ok,
      hole |-> IF d = "enlarging" THEN st.hole + 1 ELSE st.hole,
      solitary |-> IF d = "new" THEN st.solitary + 1 ELSE st.solitary,
      trace |-> IF d = "prefiltered" THEN st.trace
                ELSE Append(st.trace, [lesion |-> l, decision |-> d])]

GrowthDiff ==
  /\ pc = "growth_diff"
  /\ IF baseline.shape # followup.shape
     THEN \* followup - baseline: shapes of unequal sides (neither of them 1)
          \* cannot be broadcast
          /\ pc' = "error"
          /\ stdout' = "ValueError: operands could not be broadcast together"
          /\ UNCHANGED <<loop_vars, growth_vars>>
     ELSE LET lab == ndi_label(positive_difference(followup, baseline), connectivity)
              sizes == physical_sizes(lab.labels, voxelsize_baseline)
          IN /\ lesions_fu_min_bl' = lab.labels
             /\ lesion_sizes' = sizes
             /\ ok_sizes_fu_min_bl' = size_mask(sizes, 7, 10, args.min_size)
             /\ distance_map' \in distance_transform_edt(lab.labels, voxel_resolution_baseline)
             /\ enlarging_lesions' = 0
             /\ new_lesions' = 0
             /\ lesion_number' = 1
             /\ range_stop' = unique_len(lab.labels)
             /\ pc' = "growth_loop"
             /\ UNCHANGED <<fu_min_bl_volume, trace_fu_min_bl, stdout>>
  /\ UNCHANGED <<setup_vars, file_vars, load_vars, bl_vars, fu_vars, shrink_vars, npz, images>>

GrowthIter ==
  /\ pc = "growth_loop"
  /\ lesion_number < range_stop
  /\ LET st == growth_step([ok |-> ok_sizes_fu_min_bl, hole |-> enlarging_lesions,
                            solitary |-> new_lesions, trace |-> trace_fu_min_bl],
                           lesion_number, lesions_fu_min_bl, baseline, distance_map,
                           voxelsize_baseline, args)
     IN /\ ok_sizes_fu_min_bl' = st.ok
        /\ enlarging_lesions' = st.hole
        /\ new_lesions' = st.solitary
        /\ trace_fu_min_bl' = st.trace
  /\ lesion_number' = lesion_number + 1
  /\ UNCHANGED <<pc, setup_vars, file_vars, load_vars, bl_vars, fu_vars, lesion_sizes,
                 distance_map, range_stop, lesions_fu_min_bl, fu_min_bl_volume,
                 shrink_vars, out_vars>>

GrowthEnd ==
  /\ pc = "growth_loop"
  /\ lesion_number >= range_stop
  /\ fu_min_bl_volume' = masked_sum(lesion_sizes, ok_sizes_fu_min_bl)
  /\ pc' = "shrink_diff"
  /\ UNCHANGED <<setup_vars, file_vars, load_vars, bl_vars, fu_vars, loop_vars,
                 lesions_fu_min_bl, ok_sizes_fu_min_bl, enlarging_lesions, new_lesions,
                 trace_fu_min_bl, shrink_vars, out_vars>>

------------------------------------------------------------------------------
(* Lines 144-209: baseline minus follow-up, the shrink pass                *)

\* The shrink loop body with the too-small test written volume < min_size.
shrink_decision_strict(l, labels, ok, follow, dmap, voxelsize, a) ==
  IF ~ok[l] THEN "prefiltered"
  ELSE
    LET lesion == Equal(labels, l)
        volume == Cardinality(lesion) * voxelsize
        filled_volume == Cardinality(binary_fill_holes(lesion, labels.shape))
    IN IF /\ 20 * (filled_volume - Cardinality(lesion)) > filled_volume
          /\ filled_volume > a.min_size
       THEN "shrinking"
       ELSE IF volume < a.min_size THEN "too_small"
       ELSE
         LET dilated_lesion == binary_dilation(lesion, labels.shape)
             overlap == Cardinality(dilated_lesion \cap NonZero(follow))
         IN IF /\ 100 * SetMax({At(dmap, v) : v \in lesion}) > 121 * voxelsize * voxelsize
               /\ a.max_overlap[2] * overlap < a.max_overlap[1] * volume
            THEN "disappearing"
            ELSE "rejected_shape"

\* Lines 160-206 for one lesion_number: the branch the loop body takes.
shrink_decision(l, labels, ok, follow, dmap, voxelsize, a) ==
  IF ~ok[l] THEN "prefiltered"
  ELSE
    LET lesion == Equal(labels, l)
        volume == Cardinality(lesion) * voxelsize
        filled_volume == Cardinality(binary_fill_holes(lesion, labels.shape))
    IN IF /\ 20 * (filled_volume - Cardinality(lesion)) > filled_volume
          /\ filled_volume > a.min_size
       THEN "shrinking"
       ELSE IF volume <= a.min_size THEN "too_small"
       ELSE
         LET dilated_lesion == binary_dilation(lesion, labels.shape)
             overlap == Cardinality(dilated_lesion \cap NonZero(follow))
         IN IF /\ 100 * SetMax({At(dmap, v) : v \in lesion}) > 121 * voxelsize * voxelsize
               /\ a.max_overlap[2] * overlap < a.max_overlap[1] * volume
            THEN "disappearing"
            ELSE "rejected_shape"

\* One iteration of the loop at line 158 on the loop's variables.
shrink_step(st, l, labels, follow, dmap, voxelsize, a) ==
  LET d == shrink_decision(l, labels, st.ok, follow, dmap, voxelsize, a)
  IN [ok |-> IF d \in {"too_small", "rejected_shape"} THEN discard(st.ok, l) ELSE st.ok,
      hole |-> IF d = "shrinking" THEN st.hole + 1 ELSE st.hole,
      solitary |-> IF d = "disappearing" THEN st.solitary + 1 ELSE st.solitary,
      trace |-> IF d = "prefiltered" THEN st.trace
                ELSE Append(st.trace, [lesion |-> l, decision |-> d])]

ShrinkDiff ==
  /\ pc = "shrink_diff"
  /\ LET lab == ndi_label(positive_difference(baseline, followup), connectivity)
         sizes == physical_sizes(lab.labels, voxelsize_baseline)
     IN /\ lesions_bl_min_fu' = lab.labels
        /\ lesion_sizes' = sizes
        /\ ok_sizes_bl_min_fu' = size_mask(sizes, 7, 10, args.min_size)
        /\ distance_map' \in distance_transform_edt(lab.labels, voxel_resolution_baseline)
        /\ shrinking_lesions' = 0
        /\ disappearing_lesions' = 0
        /\ lesion_number' = 1
        /\ range_stop' = unique_len(lab.labels)
  /\ pc' = "shrink_loop"
  /\ UNCHANGED <<setup_vars, file_vars, load_vars, bl_vars, fu_vars, growth_vars,
                 bl_min_fu_volume, trace_bl_min_fu, out_vars>>

ShrinkIter ==
  /\ pc = "shrink_loop"
  /\ lesion_number < range_stop
  /\ LET st == shrink_step([ok |-> ok_sizes_bl_min_fu, hole |-> shrinking_lesions,
                            solitary |-> disappearing_lesions, trace |-> trace_bl_min_fu],
                           lesion_number, lesions_bl_min_fu, followup, distance_map,
                           voxelsize_baseline, args)
     IN /\ ok_sizes_bl_min_fu' = st.ok
        /\ shrinking_lesions' = st.hole
        /\ disappearing_lesions' = st.solitary
        /\ trace_bl_min_fu' = st.trace
  /\ lesion_number' = lesion_number + 1
  /\ UNCHANGED <<pc, setup_vars, file_vars, load_vars, bl_vars, fu_vars, lesion_sizes,
                 distance_map, range_stop, growth_vars, lesions_bl_min_fu, bl_min_fu_volume,
                 out_vars>>

ShrinkEnd ==
  /\ pc = "shrink_loop"
  /\ lesion_number >= range_stop
  /\ bl_min_fu_volume' = masked_sum(lesion_sizes, ok_sizes_bl_min_fu)
  /\ pc' = "save_results"
  /\ UNCHANGED <<setup_vars, file_vars, load_vars, bl_vars, fu_vars, loop_vars, growth_vars,
                 lesions_bl_min_fu, ok_sizes_bl_min_fu, shrinking_lesions,
                 disappearing_lesions, trace_bl_min_fu, out_vars>>

------------------------------------------------------------------------------
(* Lines 212-268: the summary record and the optional label images         *)

SaveResults ==
  /\ pc = "save_results"
  /\ npz' = [bl_les |-> thresholded_baseline_lesions,
             bl_vol_les |-> baseline_volume,
             fu_les |-> thresholded_followup_lesions,
             fu_les_eff |-> thresholded_baseline_lesions + new_lesions - disappearing_lesions,
             fu_vol_les |-> followup_volume,
             fu_min_bl_les |-> enlarging_lesions + new_lesions,
             fu_min_bl_vol_les |-> fu_min_bl_volume,
             bl_min_fu_les |-> disappearing_lesions + shrinking_lesions,
             bl_min_fu_vol_les |-> bl_min_fu_volume]
  /\ stdout' = "Effective number of followup lesions"
  /\ pc' = "save_images"
  /\ UNCHANGED <<setup_vars, file_vars, load_vars, bl_vars, fu_vars, loop_vars, growth_vars,
                 shrink_vars, images>>

\* Lines 242-256 for one label array: every label below len(np.unique(labels))
\* whose keep-mask entry is false is set to 0.
mask_out(labels, ok) ==
  LET stop == unique_len(labels)
  IN Array(labels.shape,
           [v \in Voxels(labels.shape) |-> IF At(labels, v) \in 1..(stop - 1) /\ ~ok[At(labels, v)]
                      THEN 0 ELSE At(labels, v)])

\* args.save_images is read here for the first time; its value is drawn here.
SaveImages ==
  /\ pc = "save_images"
  /\ \E save_images \in BOOLEAN :
       IF save_images
       THEN /\ lesions_baseline' = mask_out(lesions_baseline, ok_sizes_baseline)
            /\ lesions_followup' = mask_out(lesions_followup, ok_sizes_followup)
            /\ lesions_fu_min_bl' = mask_out(lesions_fu_min_bl, ok_sizes_fu_min_bl)
            /\ lesions_bl_min_fu' = mask_out(lesions_bl_min_fu, ok_sizes_bl_min_fu)
            /\ images' = [bl_lesions |-> lesions_baseline', fu_lesions |-> lesions_followup',
                          fu_min_bl_lesions |-> lesions_fu_min_bl',
                          bl_min_fu_lesions |-> lesions_bl_min_fu',
                          affine |-> baseline_affine]
       ELSE UNCHANGED <<lesions_baseline, lesions_followup, lesions_fu_min_bl,
                        lesions_bl_min_fu, images>>
  /\ stdout' = "Done!"
  /\ pc' = "done"
  /\ UNCHANGED <<setup_vars, file_vars, load_vars, ok_sizes_baseline,
                 thresholded_baseline_lesions, baseline_volume, ok_sizes_followup,
                 thresholded_followup_lesions, followup_volume, loop_vars,
                 ok_sizes_fu_min_bl, enlarging_lesions, new_lesions, fu_min_bl_volume,
                 trace_fu_min_bl, ok_sizes_bl_min_fu, shrinking_lesions,
                 disappearing_lesions, bl_min_fu_volume, trace_bl_min_fu, npz>>

------------------------------------------------------------------------------

Next ==
  \/ SetUpConnectivity
  \/ LoadBaseline
  \/ LoadFollowup
  \/ LabelBaseline
  \/ LabelFollowup
  \/ GrowthDiff
  \/ GrowthIter
  \/ GrowthEnd
  \/ ShrinkDiff
  \/ ShrinkIter
  \/ ShrinkEnd
  \/ SaveResults
  \/ SaveImages

Spec == Init /\ [][Next]_vars

------------------------------------------------------------------------------
(* The two passes as functions of their inputs                             *)

RECURSIVE growth_loop(_, _, _, _, _, _, _, _)
growth_loop(st, l, stop, labels, base, dmap, voxelsize, a) ==
  IF l >= stop THEN st
  ELSE growth_loop(growth_step(st, l, labels, base, dmap, voxelsize, a),
                   l + 1, stop, labels, base, dmap, voxelsize, a)

\* Lines 78-142 on a baseline mask and a follow-up mask.
growth_pass(base, follow, structure, voxelsize, resolution, a) ==
  LET lab == ndi_label(positive_difference(follow, base), structure).labels
      sizes == physical_sizes(lab, voxelsize)
      dmap == CHOOSE d \in distance_transform_edt(lab, resolution) : TRUE
      st == growth_loop([ok |-> size_mask(sizes, 7, 10, a.min_size), hole |-> 0,
                         solitary |-> 0, trace |-> <<>>],
                        1, unique_len(lab), lab, base, dmap, voxelsize, a)
  IN [labels |-> lab, ok |-> st.ok, hole |-> st.hole, solitary |-> st.solitary,
      trace |-> st.trace, volume |-> masked_sum(sizes, st.ok)]

RECURSIVE shrink_loop(_, _, _, _, _, _, _, _)
shrink_loop(st, l, stop, labels, follow, dmap, voxelsize, a) ==
  IF l >= stop THEN st
  ELSE shrink_loop(shrink_step(st, l, labels, follow, dmap, voxelsize, a),
                   l + 1, stop, labels, follow, dmap, voxelsize, a)

\* Lines 144-209 on a baseline mask and a follow-up mask.
shrink_pass(base, follow, structure, voxelsize, resolution, a) ==
  LET lab == ndi_label(positive_difference(base, follow), structure).labels
      sizes == physical_sizes(lab, voxelsize)
      dmap == CHOOSE d \in distance_transform_edt(lab, resolution) : TRUE
      st == shrink_loop([ok |-> size_mask(sizes, 7, 10, a.min_size), hole |-> 0,
                         solitary |-> 0, trace |-> <<>>],
                        1, unique_len(lab), lab, follow, dmap, voxelsize, a)
  IN [labels |-> lab, ok |-> st.ok, hole |-> st.hole, solitary |-> st.solitary,
      trace |-> st.trace, volume |-> masked_sum(sizes, st.ok)]

------------------------------------------------------------------------------
(* Vocabulary of the properties                                            *)

\* Positions at which the growth pass, the shrink pass have run to their end
\* and the label arrays are still as the passes left them.
GrowthDone == pc \in {"shrink_diff", "shrink_loop", "save_results", "save_images"}
ShrinkDone == pc \in {"save_results", "save_images"}

\* Number of connected components of a label array.
NumComponents(labels) == SetMax(Values(labels))

\* Physical volume (mm^3) of component l.
RawVolume(labels, l) == Cardinality(Equal(labels, l)) * voxelsize_baseline

\* Component l exceeds 0.7 x T, i.e. it is not pre-filtered.
SurvivesPrefilter(labels, l) == 10 * RawVolume(labels, l) > 7 * args.min_size

\* The decisions recorded for component l.
DecisionsOf(trace, l) == {i \in 1..Len(trace) : trace[i].lesion = l}

\* The decision of component l, "none" if it has none.
DecisionOf(trace, l) ==
  IF DecisionsOf(trace, l) = {} THEN "none"
  ELSE trace[CHOOSE i \in DecisionsOf(trace, l) : TRUE].decision

\* The components recorded with one of the given decisions.
Decided(trace, decisions) ==
  {trace[i].lesion : i \in {j \in 1..Len(trace) : trace[j].decision \in decisions}}

\* Sum of the physical volumes of a set of components.
RECURSIVE SumVolumes(_, _)
SumVolumes(labels, S) ==
  IF S = {} THEN 0
  ELSE LET x == CHOOSE y \in S : TRUE
       IN RawVolume(labels, x) + SumVolumes(labels, S \ {x})

------------------------------------------------------------------------------
(* Properties                                                              *)

Terminal == {"enlarging", "shrinking", "too_small", "new", "disappearing", "rejected_shape"}

\* Every component of a difference mask that exceeds 0.7 x T has exactly one
\* decision, and it is a terminal category.
ClassifiedOnce(labels, trace) ==
  \A l \in 1..NumComponents(labels) :
    SurvivesPrefilter(labels, l) =>
      /\ Cardinality(DecisionsOf(trace, l)) = 1
      /\ DecisionOf(trace, l) \in Terminal

\* C1: once a pass has run, every component of its difference mask whose
\* physical volume exceeds 0.7 x T has been visited by the classification loop
\* and carries exactly one of the four terminal categories, also when the
\* difference mask has no background voxel.
C1_EveryComponentClassifiedOnce ==
  /\ GrowthDone => ClassifiedOnce(lesions_fu_min_bl, trace_fu_min_bl)
  /\ ShrinkDone => ClassifiedOnce(lesions_bl_min_fu, trace_bl_min_fu)

\* C2: in the saved record the growth count is the number of components
\* decided new or enlarging and the growth volume is the sum of their raw
\* physical volumes, likewise for the shrink pass; so a pass with count 0 has
\* volume 0.
C2_AggregatesMatchDecisions ==
  pc = "save_images" =>
    /\ npz.fu_min_bl_les = Cardinality(Decided(trace_fu_min_bl, {"new", "enlarging"}))
    /\ npz.fu_min_bl_vol_les =
         SumVolumes(lesions_fu_min_bl, Decided(trace_fu_min_bl, {"new", "enlarging"}))
    /\ npz.bl_min_fu_les = Cardinality(Decided(trace_bl_min_fu, {"disappearing", "shrinking"}))
    /\ npz.bl_min_fu_vol_les =
         SumVolumes(lesions_bl_min_fu, Decided(trace_bl_min_fu, {"disappearing", "shrinking"}))
    /\ (npz.fu_min_bl_les = 0 => npz.fu_min_bl_vol_les = 0)
    /\ (npz.bl_min_fu_les = 0 => npz.bl_min_fu_vol_les = 0)

\* Both files are loaded and their grids differ in shape or in affine.
GeometryMismatch ==
  /\ pc \notin {"setup", "exit", "load_baseline", "load_followup"}
  /\ bl_file.seg.shape # fu_file.seg.shape \/ bl_file.affine # fu_file.affine

\* C3: with mismatched grids the run stops with an input error before the
\* first labeling: nothing is ever labeled and no summary record is written.
C3_MismatchDetectedBeforeLabeling ==
  GeometryMismatch =>
    /\ pc \in {"label_baseline", "error"}
    /\ lesions_baseline = NoArray /\ lesions_followup = NoArray
    /\ lesions_fu_min_bl = NoArray /\ lesions_bl_min_fu = NoArray
    /\ npz = <<>>

\* C4: a connectivity other than 6, 18, 26 ends the run at the set-up step
\* with the configuration message, before anything is loaded, labeled,
\* classified or written; 6, 18 and 26 never end the run there.
C4_InvalidConnectivityAborts ==
  /\ (~(args.connectivity \in {6, 18, 26}) /\ pc # "setup") =>
       /\ pc = "exit"
       /\ stdout = "Invalid value for argument connectivity, exit"
       /\ bl_file = NoFile /\ fu_file = NoFile
       /\ baseline = NoArray /\ followup = NoArray
       /\ lesions_baseline = NoArray /\ lesions_followup = NoArray
       /\ lesions_fu_min_bl = NoArray /\ lesions_bl_min_fu = NoArray
       /\ trace_fu_min_bl = <<>> /\ trace_bl_min_fu = <<>>
       /\ npz = <<>> /\ images = <<>>
  /\ args.connectivity \in {6, 18, 26} => pc # "exit"

\* An invalid connectivity has ended the run.
C4_Witness == pc = "exit" /\ args.connectivity = 8


\* The decision names of one pass in the vocabulary of the other.
Renamed(d) ==
  CASE d = "enlarging" -> "shrinking"
    [] d = "shrinking" -> "enlarging"
    [] d = "new" -> "disappearing"
    [] d = "disappearing" -> "new"
    [] OTHER -> d

RenamedTrace(trace) ==
  [i \in 1..Len(trace) |-> [lesion |-> trace[i].lesion, decision |-> Renamed(trace[i].decision)]]

\* C5: the growth procedure run with the two masks exchanged gives the
\* components, keep mask, decisions (up to renaming), counts and volume that
\* the shrink pass of this run gave, and the shrink procedure with the masks
\* exchanged gives those of this run's growth pass.
C5_RoleSwapInvariance ==
  pc = "save_results" =>
    LET g == growth_pass(followup, baseline, connectivity, voxelsize_baseline,
                         voxel_resolution_baseline, args)
        h == shrink_pass(followup, baseline, connectivity, voxelsize_baseline,
                         voxel_resolution_baseline, args)
    IN /\ g.labels = lesions_bl_min_fu
       /\ g.ok = ok_sizes_bl_min_fu
       /\ RenamedTrace(g.trace) = trace_bl_min_fu
       /\ g.hole = shrinking_lesions
       /\ g.solitary = disappearing_lesions
       /\ g.volume = bl_min_fu_volume
       /\ h.labels = lesions_fu_min_bl
       /\ h.ok = ok_sizes_fu_min_bl
       /\ RenamedTrace(h.trace) = trace_fu_min_bl
       /\ h.hole = enlarging_lesions
       /\ h.solitary = new_lesions
       /\ h.volume = fu_min_bl_volume

\* Both passes have decided components, one of them as disappearing.
C5_Witness ==
  /\ pc = "save_results"
  /\ Decided(trace_bl_min_fu, {"disappearing"}) # {}
  /\ Len(trace_fu_min_bl) >= 1

\* The kernel seen as a set of offsets from its centre.
Offsets == {<<i, j, k>> : i \in -1..1, j \in -1..1, k \in -1..1}
Entry(d) == connectivity[d[1] + 2][d[2] + 2][d[3] + 2]
Norm1(d) == Abs(d[1]) + Abs(d[2]) + Abs(d[3])
KernelBuilt == pc \notin {"setup", "exit"}
KernelSymmetric == \A d \in Offsets : Entry(d) = Entry(<<-d[1], -d[2], -d[3]>>)

\* The face neighbours for 6, the face and edge neighbours for 18, all for 26.
ExpectedNeighbours(c) ==
  {d \in Offsets : Norm1(d) >= 1 /\ Norm1(d) <= (IF c = 6 THEN 1 ELSE IF c = 18 THEN 2 ELSE 3)}

\* C6 as stated: the kernel is symmetric about its centre, its centre cell is
\* excluded, and its set cells are exactly the neighbours of the order.
C6_KernelExcludesCentre ==
  KernelBuilt =>
    /\ KernelSymmetric
    /\ Entry(<<0, 0, 0>>) = 0
    /\ {d \in Offsets : Entry(d) # 0} = ExpectedNeighbours(args.connectivity)

\* C6 as amended: the kernel is symmetric about its centre, its centre cell is
\* set, and its set cells other than the centre are exactly the neighbours of
\* the order.
C6_KernelIncludesCentre ==
  KernelBuilt =>
    /\ KernelSymmetric
    /\ Entry(<<0, 0, 0>>) = 1
    /\ {d \in Offsets \ {<<0, 0, 0>>} : Entry(d) # 0} = ExpectedNeighbours(args.connectivity)

\* The 18-connectivity kernel has been built.
C6_Witness == KernelBuilt /\ args.connectivity = 18

\* The hole rule in physical units: the filled component exceeds the raw one
\* by more than 5% of the filled one, and the filled physical volume exceeds T.
HoleRule(labels, l) ==
  LET raw == Cardinality(Equal(labels, l))
      filled == Cardinality(binary_fill_holes(Equal(labels, l), labels.shape))
  IN /\ 20 * (filled - raw) > filled
     /\ filled * voxelsize_baseline > args.min_size

\* C7: a component that survives the pre-filter and meets the hole rule, with
\* the filled volume taken in mm^3, is decided enlarging (growth pass) or
\* shrinking (shrink pass).
C7_HoleRuleInPhysicalVolume ==
  /\ GrowthDone =>
       \A l \in 1..NumComponents(lesions_fu_min_bl) :
         (SurvivesPrefilter(lesions_fu_min_bl, l) /\ HoleRule(lesions_fu_min_bl, l))
           => DecisionOf(trace_fu_min_bl, l) = "enlarging"
  /\ ShrinkDone =>
       \A l \in 1..NumComponents(lesions_bl_min_fu) :
         (SurvivesPrefilter(lesions_bl_min_fu, l) /\ HoleRule(lesions_bl_min_fu, l))
           => DecisionOf(trace_bl_min_fu, l) = "shrinking"

\* The shape criteria of component l against the other mask: the largest
\* distance-map value over its voxels exceeds 1.1 x voxel volume, and its
\* dilation meets the other mask in fewer than maxOverlap x raw volume voxels.
ShapeCriteria(labels, l, other) ==
  /\ 100 * SetMax({At(distance_map, v) : v \in Equal(labels, l)})
       > 121 * voxelsize_baseline * voxelsize_baseline
  /\ args.max_overlap[2]
       * Cardinality(binary_dilation(Equal(labels, l), labels.shape) \cap NonZero(other))
       < args.max_overlap[1] * RawVolume(labels, l)

\* The decision the size and shape tests assign to component l.
SizeAndShape(labels, l, other, accepted) ==
  IF RawVolume(labels, l) <= args.min_size THEN "too_small"
  ELSE IF ShapeCriteria(labels, l, other) THEN accepted ELSE "rejected_shape"

\* C8: a component that survives the pre-filter and is not taken by the hole
\* rule is decided too-small when its raw volume is at most T, otherwise new
\* (disappearing) exactly when the shape criteria hold against the baseline
\* (follow-up), and rejected-shape when they do not.
C8_SizeAndShapeDecision ==
  /\ pc = "shrink_diff" =>
       \A l \in 1..NumComponents(lesions_fu_min_bl) :
         (SurvivesPrefilter(lesions_fu_min_bl, l)
            /\ DecisionOf(trace_fu_min_bl, l) # "enlarging")
           => DecisionOf(trace_fu_min_bl, l)
                = SizeAndShape(lesions_fu_min_bl, l, baseline, "new")
  /\ pc = "save_results" =>
       \A l \in 1..NumComponents(lesions_bl_min_fu) :
         (SurvivesPrefilter(lesions_bl_min_fu, l)
            /\ DecisionOf(trace_bl_min_fu, l) # "shrinking")
           => DecisionOf(trace_bl_min_fu, l)
                = SizeAndShape(lesions_bl_min_fu, l, followup, "disappearing")

\* The same mask is loaded as baseline and as follow-up.
SameMask ==
  /\ pc \notin {"setup", "exit", "load_baseline", "load_followup"}
  /\ baseline = followup

\* C9: with one mask as baseline and follow-up the run raises no error, and
\* the record it writes has growth and shrink counts and volumes 0, the
\* follow-up count and volume of the baseline, and the baseline count as
\* effective follow-up count.
C9_NoChange ==
  SameMask =>
    /\ pc # "error"
    /\ npz # <<>> =>
         /\ npz.fu_min_bl_les = 0 /\ npz.bl_min_fu_les = 0
         /\ npz.fu_min_bl_vol_les = 0 /\ npz.bl_min_fu_vol_les = 0
         /\ npz.fu_les = npz.bl_les
         /\ npz.fu_vol_les = npz.bl_vol_les
         /\ npz.fu_les_eff = npz.bl_les

\* A run on an all-lesion mask at both timepoints has completed.
C9_Witness ==
  /\ SameMask /\ pc = "done"
  /\ Equal(baseline, 0) = {}
  /\ npz.bl_les = 1

\* Positions from which a keep mask has been computed.
BaselineMaskComputed ==
  pc \in {"label_followup", "growth_diff", "growth_loop", "shrink_diff", "shrink_loop",
          "save_results", "save_images", "done", "error"}
FollowupMaskComputed == BaselineMaskComputed /\ pc # "label_followup"
GrowthMaskComputed ==
  pc \in {"growth_loop", "shrink_diff", "shrink_loop", "save_results", "save_images", "done"}
ShrinkMaskComputed == pc \in {"shrink_loop", "save_results", "save_images", "done"}

\* No entry of a keep mask goes from false to true.
NoReadmission(before, after) ==
  /\ Len(after) = Len(before)
  /\ \A i \in 1..Len(before) : after[i] => before[i]

\* C10: no step changes an entry of a computed keep mask from false to true,
\* and no step changes the baseline or the follow-up keep mask once computed.
C10_FilteringMonotonic ==
  [][/\ BaselineMaskComputed => ok_sizes_baseline' = ok_sizes_baseline
     /\ FollowupMaskComputed => ok_sizes_followup' = ok_sizes_followup
     /\ GrowthMaskComputed => NoReadmission(ok_sizes_fu_min_bl, ok_sizes_fu_min_bl')
     /\ ShrinkMaskComputed => NoReadmission(ok_sizes_bl_min_fu, ok_sizes_bl_min_fu')]_vars

\* A run has completed in which the growth pass discarded a component during
\* classification and another one in the pre-filter.
C10_Witness ==
  /\ pc = "done"
  /\ \E i \in 1..Len(trace_fu_min_bl) :
       /\ trace_fu_min_bl[i].decision \in {"too_small", "rejected_shape"}
       /\ ~ok_sizes_fu_min_bl[trace_fu_min_bl[i].lesion]
  /\ \E l \in 1..Len(ok_sizes_fu_min_bl) : DecisionsOf(trace_fu_min_bl, l) = {}

\* The summary record has been written.
RecordWritten == pc \in {"save_images", "done"}

\* C11: the effective follow-up count written to the summary record
\* (baseline count + new count - disappearing count) is never negative: the
\* components classified disappearing never outnumber the kept baseline
\* lesions plus the components classified new.
C11_EffectiveCountNonNegative ==
  RecordWritten =>
    /\ npz.fu_les_eff >= 0
    /\ disappearing_lesions <= thresholded_baseline_lesions + new_lesions

====
